---- MODULE Spec2Model ----
(***************************************************************************)
(* Model of the xtoken XML tokenizer (src/src/lib.rs).                     *)
(*                                                                         *)
(* A Tokenizer holds the unconsumed remainder `rest` of a byte slice and   *)
(* the internal-subset counter `depth`.  Iterator::next() is modelled by   *)
(* the operator next(self), built from one operator per scanner method,    *)
(* and by the action CallNext that applies it to the tokenizer state.      *)
(* Bytes are their ASCII codes; slices are sequences; an Option<usize>     *)
(* position is a 0-based offset or NoPos.                                  *)
(***************************************************************************)
EXTENDS Integers, Sequences, FiniteSets

VARIABLES input, rest, depth, tokens, last, before

vars == <<input, rest, depth, tokens, last, before>>

(* ------------------------------ bytes ---------------------------------- *)
LT == 60
AMP == 38
RBRACK == 93
GT == 62
LBRACK == 91
SEMI == 59
QMARK == 63
BANG == 33
SLASH == 47
DASH == 45
UPPER_A == 65
UPPER_Z == 90
UPPER_D == 68
LOWER_A == 97

(* ------------------------------ bounds --------------------------------- *)
MaxChunks == 3

(* ------------------------- slices and memchr --------------------------- *)
NoPos == -1

slice_from(s, n) == SubSeq(s, n + 1, Len(s))

slice_to(s, n) == SubSeq(s, 1, n)

split_at(s, mid) == <<slice_to(s, mid), slice_from(s, mid)>>

starts_with(s, p) == Len(s) >= Len(p) /\ SubSeq(s, 1, Len(p)) = p

find_first(needles, haystack) ==
  LET hits == {i \in 1..Len(haystack) : haystack[i] \in needles}
  IN  IF hits = {} THEN NoPos
      ELSE (CHOOSE i \in hits : \A j \in hits : i <= j) - 1

memchr(n1, haystack) == find_first({n1}, haystack)

memchr2(n1, n2, haystack) == find_first({n1, n2}, haystack)

memchr3(n1, n2, n3, haystack) == find_first({n1, n2, n3}, haystack)

(* ------------------------------ tokens --------------------------------- *)
TokenKinds ==
  {"Span", "Entity", "Error", "PI", "Comment", "Decl", "DeclEnd",
   "Element", "ElementEnd"}

Token(kind, span) == [kind |-> kind, span |-> span]

\* Outcomes of a call that are not Some(token).
None == [kind |-> "None", span |-> <<>>]

Panic == [kind |-> "Panic", span |-> <<>>]

NotCalled == [kind |-> "NotCalled", span |-> <<>>]

Out(tok, self) == [tok |-> tok, self |-> self]

(* ----------------------------- Tokenizer ------------------------------- *)
new(bytes) == [rest |-> bytes, depth |-> 0]

rest_err_wrong_half(self) ==
  LET sp == split_at(self.rest, Len(self.rest))
  IN  Out(Token("Error", sp[2]), [self EXCEPT !.rest = sp[2]])

rest_err_keep(self) ==
  LET sp == split_at(self.rest, Len(self.rest))
  IN  Out(Token("Error", sp[1]), self)

rest_err(self) ==
  LET sp == split_at(self.rest, Len(self.rest))
  IN  Out(Token("Error", sp[1]), [self EXCEPT !.rest = sp[2]])

RECURSIVE proc(_, _)
proc_skip(self, rest0) ==
  LET pos == memchr(QMARK, rest0)
  IN  IF pos # NoPos
      THEN LET rest1 == slice_from(rest0, pos + 1)
           IN  IF rest1 # <<>>
               THEN LET chr2 == Head(rest1)
                        rest2 == Tail(rest1)
                    IN  IF chr2 = GT
                        THEN Out(Token("PI", slice_to(self.rest, Len(self.rest) - Len(rest2))),
                                 [self EXCEPT !.rest = rest2])
                        ELSE proc(self, rest2)
               ELSE rest_err(self)
      ELSE rest_err(self)

proc(self, rest0) ==
  LET pos == memchr(QMARK, rest0)
  IN  IF pos # NoPos
      THEN LET rest1 == slice_from(rest0, pos + 1)
           IN  IF rest1 # <<>>
               THEN LET chr2 == Head(rest1)
                        rest2 == Tail(rest1)
                    IN  IF chr2 = GT
                        THEN Out(Token("PI", slice_to(self.rest, Len(self.rest) - Len(rest2))),
                                 [self EXCEPT !.rest = rest2])
                        ELSE proc(self, rest1)
               ELSE rest_err(self)
      ELSE rest_err(self)

RECURSIVE comment(_, _)
comment(self, rest0) ==
  LET pos == memchr(DASH, rest0)
  IN  IF pos # NoPos
      THEN LET rest1 == slice_from(rest0, pos + 1)
           IN  IF rest1 # <<>>
               THEN LET chr2 == Head(rest1)
                        rest2 == Tail(rest1)
                    IN  IF chr2 = DASH /\ starts_with(rest2, <<GT>>)
                        THEN LET mid == Len(self.rest) - (Len(rest2) - 1)
                                 sp == split_at(self.rest, mid)
                             IN  Out(Token("Comment", sp[1]), [self EXCEPT !.rest = sp[2]])
                        ELSE comment(self, rest1)
               ELSE rest_err(self)
      ELSE rest_err(self)

decl_gt_only(self, rest0) ==
  LET pos == memchr(GT, rest0)
  IN  IF pos # NoPos
      THEN LET mid == Len(self.rest) - (Len(rest0) - (pos + 1))
               sp == split_at(self.rest, mid)
           IN  Out(Token("Decl", sp[1]),
                   [rest |-> sp[2],
                    depth |-> IF sp[1][mid] = LBRACK THEN self.depth + 1 ELSE self.depth])
      ELSE rest_err(self)

decl_inc_always(self, rest0) ==
  LET pos == memchr2(GT, LBRACK, rest0)
  IN  IF pos # NoPos
      THEN LET mid == Len(self.rest) - (Len(rest0) - (pos + 1))
               sp == split_at(self.rest, mid)
           IN  Out(Token("Decl", sp[1]), [rest |-> sp[2], depth |-> self.depth + 1])
      ELSE rest_err(self)

decl_no_inc(self, rest0) ==
  LET pos == memchr2(GT, LBRACK, rest0)
  IN  IF pos # NoPos
      THEN LET mid == Len(self.rest) - (Len(rest0) - (pos + 1))
               sp == split_at(self.rest, mid)
           IN  Out(Token("Decl", sp[1]), [self EXCEPT !.rest = sp[2]])
      ELSE rest_err(self)

decl(self, rest0) ==
  LET pos == memchr2(GT, LBRACK, rest0)
  IN  IF pos # NoPos
      THEN LET mid == Len(self.rest) - (Len(rest0) - (pos + 1))
               sp == split_at(self.rest, mid)
           IN  Out(Token("Decl", sp[1]),
                   [rest |-> sp[2],
                    depth |-> IF sp[1][mid] = LBRACK THEN self.depth + 1 ELSE self.depth])
      ELSE rest_err(self)

decl_end_text(self) ==
  LET pos == memchr(GT, self.rest)
  IN  IF pos # NoPos
      THEN LET sp == split_at(self.rest, pos + 1)
           IN  Out(Token("DeclEnd", sp[1]), [self EXCEPT !.rest = sp[2]])
      ELSE Out(Token("Span", self.rest), [self EXCEPT !.rest = <<>>])

decl_end_dec(self) ==
  LET pos == memchr(GT, self.rest)
  IN  IF pos # NoPos
      THEN LET sp == split_at(self.rest, pos + 1)
           IN  Out(Token("DeclEnd", sp[1]),
                   [rest |-> sp[2], depth |-> IF self.depth > 0 THEN self.depth - 1 ELSE 0])
      ELSE rest_err(self)

decl_end_excl(self) ==
  LET pos == memchr(GT, self.rest)
  IN  IF pos # NoPos
      THEN LET sp == split_at(self.rest, pos)
           IN  Out(Token("DeclEnd", sp[1]), [self EXCEPT !.rest = sp[2]])
      ELSE rest_err(self)

decl_end(self) ==
  LET pos == memchr(GT, self.rest)
  IN  IF pos # NoPos
      THEN LET sp == split_at(self.rest, pos + 1)
           IN  Out(Token("DeclEnd", sp[1]), [self EXCEPT !.rest = sp[2]])
      ELSE rest_err(self)

builtin_reuse_dashes(self, rest0) ==
  IF starts_with(rest0, <<DASH, DASH>>)
  THEN comment(self, rest0)
  ELSE IF rest0 = <<>> THEN rest_err(self)
       ELSE IF Head(rest0) \in UPPER_A..UPPER_Z THEN decl(self, rest0)
       ELSE Out(Panic, self)

builtin(self, rest0) ==
  IF starts_with(rest0, <<DASH, DASH>>)
  THEN comment(self, slice_from(rest0, 2))
  ELSE IF rest0 = <<>> THEN rest_err(self)
       ELSE IF Head(rest0) \in UPPER_A..UPPER_Z THEN decl(self, rest0)
       ELSE Out(Panic, self)

entity_excl(self) ==
  LET pos == memchr(SEMI, self.rest)
  IN  IF pos # NoPos
      THEN LET sp == split_at(self.rest, pos)
           IN  Out(Token("Entity", sp[1]), [self EXCEPT !.rest = sp[2]])
      ELSE rest_err(self)

entity(self) ==
  LET pos == memchr(SEMI, self.rest)
  IN  IF pos # NoPos
      THEN LET sp == split_at(self.rest, pos + 1)
           IN  Out(Token("Entity", sp[1]), [self EXCEPT !.rest = sp[2]])
      ELSE rest_err(self)

element(self) ==
  LET pos == memchr(GT, self.rest)
  IN  IF pos # NoPos
      THEN LET sp == split_at(self.rest, pos + 1)
           IN  Out(Token("Element", sp[1]), [self EXCEPT !.rest = sp[2]])
      ELSE rest_err(self)

element_end(self) ==
  LET pos == memchr(GT, self.rest)
  IN  IF pos # NoPos
      THEN LET sp == split_at(self.rest, pos + 1)
           IN  Out(Token("ElementEnd", sp[1]), [self EXCEPT !.rest = sp[2]])
      ELSE rest_err(self)

structure_swap(self) ==
  LET inner == slice_from(self.rest, 1)
  IN  IF inner # <<>>
      THEN LET chr == Head(inner)
               rest0 == Tail(inner)
           IN  CASE chr = BANG -> builtin(self, rest0)
                 [] chr = QMARK -> proc(self, rest0)
                 [] chr = SLASH -> element(self)
                 [] OTHER -> element_end(self)
      ELSE rest_err(self)

structure_inner(self) ==
  LET inner == slice_from(self.rest, 1)
  IN  IF inner # <<>>
      THEN LET chr == Head(inner)
               rest0 == Tail(inner)
           IN  CASE chr = BANG -> builtin(self, rest0)
                 [] chr = QMARK -> proc(self, inner)
                 [] chr = SLASH -> element_end(self)
                 [] OTHER -> element(self)
      ELSE rest_err(self)

structure(self) ==
  LET inner == slice_from(self.rest, 1)
  IN  IF inner # <<>>
      THEN LET chr == Head(inner)
               rest0 == Tail(inner)
           IN  CASE chr = BANG -> builtin(self, rest0)
                 [] chr = QMARK -> proc(self, rest0)
                 [] chr = SLASH -> element_end(self)
                 [] OTHER -> element(self)
      ELSE rest_err(self)

find_marker_always3(self) == memchr3(LT, AMP, RBRACK, self.rest)

find_marker_flat(self) == memchr2(LT, AMP, self.rest)

find_marker(self) ==
  IF self.depth = 0
  THEN memchr2(LT, AMP, self.rest)
  ELSE memchr3(LT, AMP, RBRACK, self.rest)

take_span_skip(self, mid) ==
  LET sp == split_at(self.rest, mid)
  IN  Out(Token("Span", sp[1]), [self EXCEPT !.rest = slice_from(self.rest, mid + 1)])

take_span(self, mid) ==
  LET sp == split_at(self.rest, mid)
  IN  Out(Token("Span", sp[1]), [self EXCEPT !.rest = sp[2]])

dispatch(self, pos) ==
  LET first == self.rest[pos + 1]
  IN  CASE first = AMP -> entity(self)
        [] first = LT -> structure(self)
        [] first = RBRACK -> decl_end(self)
        [] OTHER -> Out(Panic, self)

next_empty_tail(self) ==
  LET pos == find_marker(self)
  IN  IF pos # NoPos
      THEN IF pos > 0 THEN take_span(self, pos) ELSE dispatch(self, pos)
      ELSE LET len == Len(self.rest)
           IN  IF len >= 0 THEN take_span(self, len) ELSE Out(None, self)

next_empty_span(self) ==
  LET pos == find_marker(self)
  IN  IF pos # NoPos
      THEN IF pos >= 0 THEN take_span(self, pos) ELSE dispatch(self, pos)
      ELSE LET len == Len(self.rest)
           IN  IF len > 0 THEN take_span(self, len) ELSE Out(None, self)

next(self) ==
  LET pos == find_marker(self)
  IN  IF pos # NoPos
      THEN IF pos > 0 THEN take_span(self, pos) ELSE dispatch(self, pos)
      ELSE LET len == Len(self.rest)
           IN  IF len > 0 THEN take_span(self, len) ELSE Out(None, self)

(* ------------------------------ inputs --------------------------------- *)
Chunks ==
  { <<LT>>, <<AMP>>, <<RBRACK>>, <<GT>>, <<LBRACK>>, <<SEMI>>, <<QMARK>>,
    <<BANG>>, <<SLASH>>, <<DASH>>, <<UPPER_D>>, <<LOWER_A>>,
    <<LT, BANG>>, <<LT, BANG, DASH, DASH>>, <<DASH, DASH, GT>>,
    <<LT, QMARK>>, <<QMARK, GT>>, <<LT, BANG, UPPER_D>>, <<LT, SLASH>>,
    <<RBRACK, GT>> }

\* The concatenation of the fragments picks[1], ..., picks[n].
RECURSIVE ChunkString(_, _)
ChunkString(picks, n) ==
  IF n = 0 THEN <<>> ELSE ChunkString(picks, n - 1) \o picks[n]

\* "<!DOCTYPE x ["
DoctypeOpen == <<60, 33, 68, 79, 67, 84, 89, 80, 69, 32, 120, 32, 91>>

\* "<x>Hello World!</x>"
HelloWorld == <<60, 120, 62, 72, 101, 108, 108, 111, 32, 87, 111, 114, 108, 100, 33, 60, 47, 120, 62>>

\* "<!DOCTYPE xml>"
DoctypeXml == <<60, 33, 68, 79, 67, 84, 89, 80, 69, 32, 120, 109, 108, 62>>

Scenarios == {DoctypeOpen, HelloWorld, DoctypeXml}

\* Nothing, or "<!D[": the latter puts what follows inside an internal subset.
Prefixes == {<<>>, <<LT, BANG, UPPER_D, LBRACK>>}

(* --------------------------- state machine ----------------------------- *)
\* The input is a scenario, or a prefix followed by at most MaxChunks fragments.
Init ==
  /\ \/ input \in Scenarios
     \/ \E p \in Prefixes, picks \in [1..MaxChunks -> Chunks \cup {<<>>}] :
          input = p \o ChunkString(picks, MaxChunks)
  /\ rest = new(input).rest
  /\ depth = new(input).depth
  /\ tokens = <<>>
  /\ last = NotCalled
  /\ before = new(input)

\* One call of Iterator::next(); a panic unwinds and ends the run.
CallNext ==
  /\ last # Panic
  /\ LET self == [rest |-> rest, depth |-> depth]
         out == next(self)
     IN  /\ rest' = out.self.rest
         /\ depth' = out.self.depth
         /\ last' = out.tok
         /\ tokens' = IF out.tok.kind \in TokenKinds
                      THEN Append(tokens, out.tok) ELSE tokens
         /\ before' = self
         /\ UNCHANGED input

Next == CallNext

Spec == Init /\ [][Next]_vars

(* ------------------------------ claims --------------------------------- *)
RECURSIVE Concat(_)
Concat(toks) == IF toks = <<>> THEN <<>> ELSE Head(toks).span \o Concat(Tail(toks))

Has(s, b) == \E i \in 1..Len(s) : s[i] = b

\* pat occurs in s beginning at 0-based offset from or later
HasAt(s, pat, from) ==
  \E i \in (from + 1)..(Len(s) - Len(pat) + 1) : SubSeq(s, i, i + Len(pat) - 1) = pat

Returned == last.kind \in TokenKinds \cup {"None"}

ErrorSeen == \E i \in 1..Len(tokens) : tokens[i].kind = "Error"

\* C1: the spans of the tokens produced so far, in order, followed by the
\* unconsumed remainder are the input; at exhaustion the spans alone are the input.
C1_Partition ==
  /\ Concat(tokens) \o rest = input
  /\ last = None => Concat(tokens) = input

C1_Witness == last = None /\ Len(tokens) >= 3 /\ Concat(tokens) = input

\* C2: no call panics, and a remainder starting with "<!" followed by a byte
\* that neither starts "--" nor is an uppercase letter gives Error over the
\* whole remainder.
BadBang(r) ==
  /\ starts_with(r, <<LT, BANG>>)
  /\ Len(r) >= 3
  /\ ~starts_with(slice_from(r, 2), <<DASH, DASH>>)
  /\ r[3] \notin UPPER_A..UPPER_Z

C2_NoAbort ==
  /\ last # Panic
  /\ (last # NotCalled /\ BadBang(before.rest)) => last = Token("Error", before.rest)

\* C3: every token returned, Error included, has a span of at least one byte.
C3_NonEmpty == \A i \in 1..Len(tokens) : Len(tokens[i].span) >= 1

C3_Witness == ErrorSeen /\ Len(tokens) >= 3

\* C4: an Error token is the last token, leaves the remainder empty, and
\* every call after it returns end-of-sequence (so there is at most one).
ErrorIsLast ==
  \A i \in 1..Len(tokens) :
    tokens[i].kind = "Error" => (i = Len(tokens) /\ rest = <<>>)

C4_TerminalError ==
  /\ []ErrorIsLast
  /\ [][ErrorSeen => (last' = None /\ tokens' = tokens)]_vars

C4_Witness == ErrorSeen /\ last = None /\ Len(tokens) >= 2

\* C5: an Error token carries the whole remainder of the start of its call,
\* and a call returns Error exactly when the construct at the cursor has no
\* terminator before the end of input or "<" / "<!" ends the input.
Unterminated(self) ==
  LET r == self.rest
  IN  \/ r = <<LT>>
      \/ r = <<LT, BANG>>
      \/ starts_with(r, <<AMP>>) /\ ~Has(r, SEMI)
      \/ starts_with(r, <<LT, QMARK>>) /\ ~HasAt(r, <<QMARK, GT>>, 2)
      \/ starts_with(r, <<LT, BANG, DASH, DASH>>) /\ ~HasAt(r, <<DASH, DASH, GT>>, 4)
      \/ /\ starts_with(r, <<LT, BANG>>)
         /\ Len(r) >= 3
         /\ r[3] \in UPPER_A..UPPER_Z
         /\ ~Has(r, GT)
         /\ ~Has(r, LBRACK)
      \/ starts_with(r, <<LT, SLASH>>) /\ ~Has(r, GT)
      \/ /\ starts_with(r, <<LT>>)
         /\ Len(r) >= 2
         /\ r[2] \notin {BANG, QMARK, SLASH}
         /\ ~Has(r, GT)
      \/ self.depth > 0 /\ starts_with(r, <<RBRACK>>) /\ ~Has(r, GT)

C5_ErrorPayload ==
  /\ last.kind = "Error" => (last.span = before.rest /\ rest = <<>>)
  /\ Returned => (last.kind = "Error" <=> Unterminated(before))

C5_Witness == last.kind = "Error" /\ Len(tokens) >= 2 /\ Len(last.span) >= 2

\* C6: a call that returns a token strictly shortens the remainder, and an
\* input of n bytes yields at most n tokens.
C6_Monotonic ==
  /\ [][tokens' # tokens => Len(rest') < Len(rest)]_vars
  /\ [](Len(tokens) + Len(rest) <= Len(input))

C6_Witness == last = None /\ Len(tokens) >= 4 /\ Len(rest) = 0 /\ Len(input) > Len(tokens)

\* C7: the depth counter starts at 0 and never decreases.
C7_DepthMonotone ==
  /\ [](last = NotCalled => depth = 0)
  /\ [][depth' >= depth]_vars

C7_Witness ==
  /\ depth >= 1
  /\ \E i \in 1..Len(tokens) : tokens[i].kind = "DeclEnd"
  /\ last = None

\* C8 (as claimed): every DeclEnd token is exactly the two bytes "]>".
C8_DeclEndIsTwoBytes ==
  \A i \in 1..Len(tokens) :
    tokens[i].kind = "DeclEnd" => tokens[i].span = <<RBRACK, GT>>

\* C8 (amended): every DeclEnd token starts with "]" and runs through the
\* first ">" after it, inclusive, whatever bytes lie in between.
C8_DeclEndSpan ==
  \A i \in 1..Len(tokens) :
    tokens[i].kind = "DeclEnd" =>
      LET sp == tokens[i].span
      IN  /\ Len(sp) >= 2
          /\ sp[1] = RBRACK
          /\ sp[Len(sp)] = GT
          /\ \A j \in 1..(Len(sp) - 1) : sp[j] # GT

C8_Witness ==
  \E i \in 1..Len(tokens) : tokens[i].kind = "DeclEnd" /\ Len(tokens[i].span) >= 3

\* C9: a Span token holds no "<" and no "&", and no "]" when depth > 0; it
\* starts at the cursor and ends right before the first marker byte of the
\* remainder, or at the end of input when there is none.
Markers(d) == IF d > 0 THEN {LT, AMP, RBRACK} ELSE {LT, AMP}

C9_SpanContent ==
  last.kind = "Span" =>
    /\ \A j \in 1..Len(last.span) : last.span[j] \notin Markers(before.depth)
    /\ last.span \o rest = before.rest
    /\ rest = <<>> \/ Head(rest) \in Markers(before.depth)

C9_Witness ==
  /\ last.kind = "Span"
  /\ before.depth > 0
  /\ rest # <<>>
  /\ Head(rest) = RBRACK

\* C10 (as claimed): "<!DOCTYPE x [" gives Decl("<!DOCTYPE x [") with depth 1,
\* then Error with an empty span, then end-of-sequence.
C10_DeclThenEmptyError ==
  (input = DoctypeOpen /\ last = None) =>
    tokens = <<Token("Decl", DoctypeOpen), Token("Error", <<>>)>>

\* C10 (amended): "<!DOCTYPE x [" gives the single token Decl("<!DOCTYPE x ["),
\* after which depth is 1, and then end-of-sequence; no Error token is produced.
C10_DeclThenEnd ==
  (input = DoctypeOpen /\ last # NotCalled) =>
    /\ tokens = <<Token("Decl", DoctypeOpen)>>
    /\ depth = 1
    /\ rest = <<>>
    /\ last \in {Token("Decl", DoctypeOpen), None}
    /\ before.rest = <<>> => last = None

C10_Witness == input = DoctypeOpen /\ last = None /\ depth = 1

\* First 1-based index of byte b in s (b occurs in s).
FirstIdx(s, b) == CHOOSE i \in 1..Len(s) : s[i] = b /\ \A j \in 1..(i - 1) : s[j] # b

Called == last # NotCalled

\* The outcome the claims describe for a construct that runs from the cursor
\* through the first terminator byte term: the token and the new remainder,
\* or Error over the remainder.
ThroughFirst(kind, r, term) ==
  IF Has(r, term)
  THEN last = Token(kind, SubSeq(r, 1, FirstIdx(r, term))) /\ rest = slice_from(r, FirstIdx(r, term))
  ELSE last = Token("Error", r) /\ rest = <<>>

\* C11: "&" gives Entity through the first ";", "</" gives ElementEnd through
\* the first ">", "<" + a byte other than "!", "?", "/" gives Element through
\* the first ">", whatever lies in between; Error when the terminator is
\* missing.  "<x>Hello World!</x>" gives Element, Span, ElementEnd.
C11_SingleTerminator ==
  /\ Called =>
       LET r == before.rest
       IN  /\ starts_with(r, <<AMP>>) => ThroughFirst("Entity", r, SEMI)
           /\ starts_with(r, <<LT, SLASH>>) => ThroughFirst("ElementEnd", r, GT)
           /\ (Len(r) >= 2 /\ r[1] = LT /\ r[2] \notin {BANG, QMARK, SLASH})
                => ThroughFirst("Element", r, GT)
  /\ (input = HelloWorld /\ last = None) =>
       tokens = << Token("Element", SubSeq(HelloWorld, 1, 3)),
                   Token("Span", SubSeq(HelloWorld, 4, 15)),
                   Token("ElementEnd", SubSeq(HelloWorld, 16, 19)) >>

C11_Witness ==
  /\ last.kind = "Entity"
  /\ \E j \in 2..Len(last.span) : last.span[j] \in {LT, AMP, GT}

\* C12: a call changes depth only when it returns a Decl token ending in "[",
\* and then by exactly one; so depth is the number of such tokens produced,
\* and DeclEnd does not decrement it.
OpensSubset(tok) == tok.kind = "Decl" /\ tok.span[Len(tok.span)] = LBRACK

C12_DepthFrame ==
  /\ Called => depth = before.depth + (IF OpensSubset(last) THEN 1 ELSE 0)
  /\ depth = Cardinality({i \in 1..Len(tokens) : OpensSubset(tokens[i])})

C12_Witness ==
  /\ depth = 2
  /\ last.kind = "DeclEnd"
  /\ before.depth = 2

\* C13: at depth 0 a "]" is plain content: it neither ends a Span nor starts a
\* markup token; DeclEnd comes only from a call entered with depth > 0 and a
\* remainder starting with "]", hence only after a Decl ending in "[".
C13_BracketOnlyInSubset ==
  /\ (Called /\ before.depth = 0 /\ last.kind = "Span") =>
       (rest = <<>> \/ Head(rest) \in {LT, AMP})
  /\ (Called /\ before.depth = 0 /\ starts_with(before.rest, <<RBRACK>>)) =>
       last.kind = "Span"
  /\ last.kind = "DeclEnd" => (before.depth > 0 /\ starts_with(before.rest, <<RBRACK>>))
  /\ \A i \in 1..Len(tokens) :
       tokens[i].kind = "DeclEnd" => \E j \in 1..(i - 1) : OpensSubset(tokens[j])

C13_Witness ==
  /\ last.kind = "Span"
  /\ before.depth = 0
  /\ starts_with(last.span, <<RBRACK>>)
  /\ \E j \in 2..Len(last.span) : last.span[j] = RBRACK
  /\ rest # <<>>

\* The tokens a tokenizer in state self returns until it stops, and how it
\* stops (None or Panic).
RECURSIVE Run(_)
Run(self) ==
  LET out == next(self)
  IN  IF out.tok.kind \in TokenKinds
      THEN LET more == Run(out.self)
           IN  [toks |-> <<out.tok>> \o more.toks, stop |-> more.stop]
      ELSE [toks |-> <<>>, stop |-> out.tok]

\* C14: on an input with exactly one internal subset (one Decl ending in "[",
\* later closed by a DeclEnd "]>") followed by further content, the tokens
\* after that DeclEnd are those of a fresh tokenizer on the same bytes.
SubsetOpens == {i \in 1..Len(tokens) : OpensSubset(tokens[i])}

DeclEnds == {i \in 1..Len(tokens) : tokens[i].kind = "DeclEnd"}

C14_DepthUnobservable ==
  (/\ last \in {None, Panic}
   /\ Cardinality(SubsetOpens) = 1
   /\ DeclEnds # {}) =>
    LET k == CHOOSE i \in DeclEnds : \A j \in DeclEnds : i <= j
        after == SubSeq(tokens, k + 1, Len(tokens))
        bytes == Concat(after) \o rest
    IN  (tokens[k].span = <<RBRACK, GT>> /\ bytes # <<>>) =>
          (after = Run(new(bytes)).toks /\ last = Run(new(bytes)).stop)

\* pat occurs in s at 0-based offset k
At(s, pat, k) == k + Len(pat) <= Len(s) /\ SubSeq(s, k + 1, k + Len(pat)) = pat

\* least 0-based offset >= from at which pat occurs in s (there is one)
FirstAt(s, pat, from) ==
  CHOOSE k \in from..Len(s) : At(s, pat, k) /\ \A j \in from..(k - 1) : ~At(s, pat, j)

\* The outcome for a construct that runs from the cursor through the first
\* occurrence of pat at offset from or later, or is Error over the remainder.
ThroughFirstAt(kind, r, pat, from) ==
  IF HasAt(r, pat, from)
  THEN LET n == FirstAt(r, pat, from) + Len(pat)
       IN  last = Token(kind, SubSeq(r, 1, n)) /\ rest = slice_from(r, n)
  ELSE last = Token("Error", r) /\ rest = <<>>

\* C15: "<!--" gives a Comment ending with the first "-->" that begins at
\* offset 4 or later (so "<!-->" and "<!--->" are not comments); a "-" not
\* followed by "->" does not end it; without such a "-->" the call gives Error.
C15_CommentTerminator ==
  (Called /\ starts_with(before.rest, <<LT, BANG, DASH, DASH>>)) =>
    ThroughFirstAt("Comment", before.rest, <<DASH, DASH, GT>>, 4)

C15_Witness ==
  /\ last.kind = "Comment"
  /\ Len(last.span) >= 8
  /\ last.span[5] = DASH

\* C16: "<?" gives a PI ending with the first "?>" that begins at offset 2 or
\* later (so "<?>" is not a PI); a "?" followed by another byte does not end
\* it; without such a "?>" the call gives Error over the remainder.
C16_PITerminator ==
  (Called /\ starts_with(before.rest, <<LT, QMARK>>)) =>
    ThroughFirstAt("PI", before.rest, <<QMARK, GT>>, 2)

C16_Witness ==
  /\ last.kind = "PI"
  /\ Len(last.span) >= 5
  /\ last.span[3] = QMARK

\* C17: "<!" + uppercase letter gives a Decl through the first ">" or "["
\* after the "<!"; with neither, Error over the remainder and depth unchanged.
\* "<!DOCTYPE xml>" gives the single token Decl("<!DOCTYPE xml>").
C17_DeclSpan ==
  /\ (/\ Called
      /\ starts_with(before.rest, <<LT, BANG>>)
      /\ Len(before.rest) >= 3
      /\ before.rest[3] \in UPPER_A..UPPER_Z) =>
       LET r == before.rest
           ends == {i \in 3..Len(r) : r[i] \in {GT, LBRACK}}
       IN  IF ends # {}
           THEN LET n == CHOOSE i \in ends : \A j \in ends : i <= j
                IN  last = Token("Decl", SubSeq(r, 1, n)) /\ rest = slice_from(r, n)
           ELSE last = Token("Error", r) /\ rest = <<>> /\ depth = before.depth
  /\ (input = DoctypeXml /\ last = None) => tokens = <<Token("Decl", DoctypeXml)>>

C17_Witness ==
  /\ last.kind = "Decl"
  /\ last.span[Len(last.span)] = LBRACK
  /\ rest # <<>>
  /\ Has(rest, GT)
  /\ before.depth = 1

\* C18: the variant of a token other than Error and Span is fixed by the
\* leading bytes of the remainder at the start of its call, and its span
\* starts with them.
LeadKind(self) ==
  LET r == self.rest
  IN  CASE starts_with(r, <<AMP>>) -> "Entity"
        [] starts_with(r, <<LT, QMARK>>) -> "PI"
        [] starts_with(r, <<LT, BANG, DASH, DASH>>) -> "Comment"
        [] starts_with(r, <<LT, BANG>>) /\ Len(r) >= 3 /\ r[3] \in UPPER_A..UPPER_Z -> "Decl"
        [] starts_with(r, <<LT, SLASH>>) -> "ElementEnd"
        [] starts_with(r, <<LT>>) /\ Len(r) >= 2 /\ r[2] \notin {QMARK, BANG, SLASH} -> "Element"
        [] starts_with(r, <<RBRACK>>) /\ self.depth > 0 -> "DeclEnd"
        [] OTHER -> "Other"

C18_Classification ==
  /\ last.kind \in TokenKinds \ {"Error", "Span"} =>
       (last.kind = LeadKind(before) /\ last.span \o rest = before.rest)
  /\ (Called /\ LeadKind(before) # "Other") => last.kind \in {LeadKind(before), "Error"}

C18_Witness ==
  /\ last.kind = "ElementEnd"
  /\ Len(tokens) >= 3
  /\ before.depth > 0

\* C19: a call returns end-of-sequence exactly when the remainder is empty,
\* and leaves remainder and depth as they were; so exhaustion is absorbing.
C19_ExhaustionAbsorbing ==
  /\ [](Called => (last = None <=> before.rest = <<>>))
  /\ [](last = None => (rest = <<>> /\ rest = before.rest /\ depth = before.depth))
  /\ [][last = None => (last' = None /\ rest' = rest /\ depth' = depth /\ tokens' = tokens)]_vars

C19_Witness ==
  /\ last = None
  /\ before.rest = <<>>
  /\ depth >= 1
  /\ tokens # <<>>
  /\ tokens[Len(tokens)].kind = "Span"

\* C20: no two consecutive tokens are both Span; the token after a Span
\* starts with a marker byte.
C20_NoAdjacentSpans ==
  /\ \A i \in 1..(Len(tokens) - 1) :
       tokens[i].kind = "Span" =>
         /\ tokens[i + 1].kind # "Span"
         /\ tokens[i + 1].span[1] \in {LT, AMP, RBRACK}
  /\ (/\ Len(tokens) >= 2
      /\ tokens[Len(tokens) - 1].kind = "Span"
      /\ last = tokens[Len(tokens)]) => Head(before.rest) \in Markers(before.depth)

C20_Witness ==
  /\ Len(tokens) >= 4
  /\ tokens[2].kind = "Span"
  /\ tokens[3].kind = "DeclEnd"
  /\ tokens[4].kind = "Span"
  /\ last = None

====
